---------------------------- MODULE Spec2Model ----------------------------
(***************************************************************************)
(* ESPNFantasyDataFetcher (src/espn_fantasy_fetcher.py): the weekly score  *)
(* reconciliation, the per-player statistics, the draft pick enrichment    *)
(* and the cross-season owner metrics, as one state machine.               *)
(*                                                                         *)
(* Numbers.  A weekly score is a Python float.  It is modelled as an       *)
(* integer count of units of 1/UnitsPerPoint point, so that the model has  *)
(* a positive score below half a hundredth (TinyScore) on which            *)
(* round(x, 2) is not the identity.  Values produced by round(x, 2) are    *)
(* integer counts of hundredths of a point.  consistency_score is kept in  *)
(* whole percent, rounded up (100 - floor(100 * std / avg)), which         *)
(* preserves its sign and its position relative to 0 and 100.              *)
(***************************************************************************)
EXTENDS Integers, Sequences, FiniteSets, TLC

\* ------------------------------------------------------------------------
\* Bounds of the model
\* ------------------------------------------------------------------------

\* Only the documents of weeks 1..MaxDataWeek carry roster entries; the
\* documents of later weeks have no teams (or their fetch fails).
MaxDataWeek == 3

\* Number of teams in a weekly document (each with at most one roster entry).
MaxTeams == 2

\* Number of picks in a season's draftDetail.
MaxPicks == 1

\* ------------------------------------------------------------------------
\* Units
\* ------------------------------------------------------------------------

UnitsPerPoint == 25 * 10

Pts(p) == p * UnitsPerPoint

\* A score of 0.004 point: positive, and rounded to 0.0 by round(x, 2).
TinyScore == Pts(1) \div UnitsPerPoint

\* n hundredths of a point, for values produced by round(x, 2).
Hundredths(p) == p * 100

Max2(a, b) == IF a >= b THEN a ELSE b

Min2(a, b) == IF a <= b THEN a ELSE b

RECURSIVE SeqSum(_)
SeqSum(s) == IF s = <<>> THEN 0 ELSE Head(s) + SeqSum(Tail(s))

RECURSIVE SeqMax(_)
SeqMax(s) == IF Len(s) = 1 THEN s[1] ELSE Max2(Head(s), SeqMax(Tail(s)))

RECURSIVE SeqMin(_)
SeqMin(s) == IF Len(s) = 1 THEN s[1] ELSE Min2(Head(s), SeqMin(Tail(s)))

\* The subsequence of the positive elements, in order.
Positive(s) == SelectSeq(s, LAMBDA x : x > 0)

\* round(x, 2) of a score x given in units: the nearest count of hundredths
\* (ties to even).
round2(x) ==
    LET n == x * 100
        q == n \div UnitsPerPoint
        r == n % UnitsPerPoint
    IN  IF 2 * r > UnitsPerPoint THEN q + 1
        ELSE IF 2 * r < UnitsPerPoint THEN q
        ELSE IF q % 2 = 0 THEN q ELSE q + 1

\* ------------------------------------------------------------------------
\* _matchup_period_count
\* ------------------------------------------------------------------------

matchup_period_count == 14

Weeks == 1..matchup_period_count

\* ------------------------------------------------------------------------
\* get_position_from_player
\* ------------------------------------------------------------------------

\* defaultPositionId values of the documents: the six mapped ones and one
\* the map does not know.
PositionIds == {0, 1, 2, 3, 4, 5, 16}

get_position_from_player(p) ==
    CASE p.defaultPositionId = 1 -> "QB"
      [] p.defaultPositionId = 2 -> "RB"
      [] p.defaultPositionId = 3 -> "WR"
      [] p.defaultPositionId = 4 -> "TE"
      [] p.defaultPositionId = 5 -> "K"
      [] p.defaultPositionId = 16 -> "D/ST"
      [] OTHER -> "FLEX"

\* ------------------------------------------------------------------------
\* Documents of the data source
\* ------------------------------------------------------------------------

\* Player ids of roster entries and draft picks.  0 stands for an entry
\* without a playerId (entry.get("playerId") is None or 0).
NoPid == 0

RosterPids == {1}

DraftPids == {1, 2}

FullName(pid) == IF pid = 1 THEN "Player One" ELSE "Player Two"

\* The player metadata of a document (playerPoolEntry.player) for player
\* pid whose defaultPositionId is posId, with its stats list.
PlayerDoc(pid, posId, stats) ==
    [fullName |-> FullName(pid), defaultPositionId |-> posId,
     proTeamId |-> 10 + pid, injuryStatus |-> "QUESTIONABLE", stats |-> stats]

StatEntry(period, source, total) ==
    [scoringPeriodId |-> period, statSourceId |-> source, appliedTotal |-> total]

\* appliedTotal values of the real stat lines of the documents.
StatValues == {0, Pts(20), Pts(25)}

\* appliedStatTotal values of the pool entries (0.0 is also the default of
\* a pool entry without one).
AppliedValues == {0, TinyScore, Pts(5)}

\* The stats lists of a player in the document of week w: none, the real
\* line of the week, a projection of the week with the real line of another
\* week, a projection of the week followed by its real line.
StatsLists(w) ==
    {<<>>, <<StatEntry(w, 1, Pts(20)), StatEntry(w + 1, 0, Pts(25))>>,
     <<StatEntry(w, 1, Pts(25)), StatEntry(w, 0, Pts(20))>>}
    \cup {<<StatEntry(w, 0, v)>> : v \in StatValues}

\* A roster entry: ppe is "none" (no playerPoolEntry), "bare" (a
\* playerPoolEntry without player) or "player".
Entry(pid, ppe, player, applied) ==
    [playerId |-> pid, ppe |-> ppe, player |-> player, appliedStatTotal |-> applied]

NoPlayer == <<>>

\* The roster entries a document of week w may hold for a player whose
\* defaultPositionId is posId.
Entries(w, posId) ==
    {Entry(pid, "none", NoPlayer, 0) : pid \in RosterPids}
    \cup {Entry(pid, "bare", NoPlayer, a) : pid \in RosterPids, a \in AppliedValues}
    \cup {Entry(pid, "player", PlayerDoc(pid, posId, st), 0) :
                pid \in RosterPids, st \in StatsLists(w)}
    \cup {Entry(pid, "player", PlayerDoc(pid, posId, st), Pts(5)) :
                pid \in RosterPids, st \in {<<>>, <<StatEntry(w, 0, Pts(20))>>}}
    \cup {Entry(NoPid, "player", PlayerDoc(1, posId, <<StatEntry(w, 0, Pts(20))>>), Pts(5))}

\* A team of a weekly document is its roster entries: here one.
Teams(w, posId) == {<<e>> : e \in Entries(w, posId)}

RECURSIVE SeqsUpTo(_, _)
SeqsUpTo(S, n) ==
    IF n = 0 THEN {<<>>}
    ELSE LET shorter == SeqsUpTo(S, n - 1)
         IN  shorter \cup {Append(s, x) : s \in {t \in shorter : Len(t) = n - 1}, x \in S}

\* The weekly documents (their "teams"): the documents of weeks after
\* MaxDataWeek have no teams.
WeekDocs(w, posId) ==
    IF w <= MaxDataWeek THEN SeqsUpTo(Teams(w, posId), MaxTeams) ELSE {<<>>}

\* ------------------------------------------------------------------------
\* _player_weeks_from_schedule
\* ------------------------------------------------------------------------

\* The record of a player on first sighting (lines 144-150) or of a drafted
\* player never sighted (lines 193-199).
NewPlayer(injury) ==
    [player_name |-> "Unknown", position |-> "Unknown", pro_team |-> 0,
     injury_status |-> injury, weekly_scores |-> <<>>]

\* The index of the first line of stats for this week with statSourceId 0,
\* or 0 if there is none (lines 165-175).
RECURSIVE FirstRealStat(_, _, _)
FirstRealStat(stats, week, i) ==
    IF i > Len(stats) THEN 0
    ELSE IF stats[i].scoringPeriodId = week /\ stats[i].statSourceId = 0 THEN i
    ELSE FirstRealStat(stats, week, i + 1)

\* weekly_scores[week] = pts: weekly_scores is a function on the recorded
\* weeks.
SetScore(ws, week, pts) == [w \in DOMAIN ws \cup {week} |-> IF w = week THEN pts ELSE ws[w]]

\* Lines 153-175: the identity fields and the real stat line of the week.
UpdateFromPlayer(rec, week, p) ==
    LET i == FirstRealStat(p.stats, week, 1)
        named == [rec EXCEPT !.player_name = p.fullName,
                             !.position = get_position_from_player(p),
                             !.pro_team = p.proTeamId,
                             !.injury_status = p.injuryStatus]
    IN  IF i = 0 THEN named
        ELSE [named EXCEPT !.weekly_scores = SetScore(@, week, p.stats[i].appliedTotal)]

\* Lines 177-186: the applied total of the pool entry, when the week has no
\* score yet.
UpdateFromApplied(rec, week, applied) ==
    IF week \notin DOMAIN rec.weekly_scores /\ applied > 0
    THEN [rec EXCEPT !.weekly_scores = SetScore(@, week, applied)]
    ELSE rec

\* Lines 138-186: one roster entry.
ProcessEntry(pd, week, entry) ==
    LET pid == entry.playerId
        rec0 == IF pid \in DOMAIN pd THEN pd[pid] ELSE NewPlayer("ACTIVE")
        rec1 == IF entry.ppe = "player" THEN UpdateFromPlayer(rec0, week, entry.player)
                ELSE rec0
        rec2 == IF entry.ppe # "none"
                THEN UpdateFromApplied(rec1, week, entry.appliedStatTotal)
                ELSE rec1
    IN  IF pid = NoPid THEN pd
        ELSE [q \in DOMAIN pd \cup {pid} |-> IF q = pid THEN rec2 ELSE pd[q]]

RECURSIVE ProcessRoster(_, _, _)
ProcessRoster(pd, week, roster) ==
    IF roster = <<>> THEN pd
    ELSE ProcessRoster(ProcessEntry(pd, week, Head(roster)), week, Tail(roster))

\* Lines 135-186: the teams of one weekly document, in order.
RECURSIVE ProcessDoc(_, _, _)
ProcessDoc(pd, week, teams) ==
    IF teams = <<>> THEN pd
    ELSE ProcessDoc(ProcessRoster(pd, week, Head(teams)), week, Tail(teams))

\* Lines 115-119: the truthy player ids of the draft picks.
drafted_players(picks) == {picks[i].playerId : i \in DOMAIN picks} \ {NoPid}

\* FillDrafted giving a drafted player the record of a first sighting.
FillDrafted_active(pd, picks) ==
    [q \in DOMAIN pd \cup drafted_players(picks) |->
        IF q \in DOMAIN pd THEN pd[q] ELSE NewPlayer("ACTIVE")]

\* Lines 190-199: the drafted players that never appeared on a roster.
FillDrafted(pd, picks) ==
    [q \in DOMAIN pd \cup drafted_players(picks) |->
        IF q \in DOMAIN pd THEN pd[q] ELSE NewPlayer("DNP")]

\* ------------------------------------------------------------------------
\* extract_draft_data_with_stats: the statistics of one player
\* ------------------------------------------------------------------------

\* Lines 269-276: the scores of weeks 1..14, 0.0 for a week without one.
complete_weeks(weeks) == [w \in Weeks |-> IF w \in DOMAIN weeks THEN weeks[w] ELSE 0]

\* Line 274: the exported list, scores rounded to hundredths.
wk_list(scores) == [w \in Weeks |-> [week |-> w, score |-> round2(scores[w])]]

Squares(s) == [i \in DOMAIN s |-> s[i] * s[i]]

CeilDiv(a, b) == (a + b - 1) \div b

\* j * j * B <= 10000 * A, for 0 <= A and 0 < B, computed without leaving
\* 32 bits: with A = q * B + r and m = j * j - 10000 * q it is
\* m * B <= 10000 * r.
PctLeq(A, B, j) ==
    LET m == j * j - 10000 * (A \div B)
        r == A % B
    IN  IF m <= 0 THEN TRUE
        ELSE IF m >= 10000 THEN FALSE
        ELSE m * (B \div 10000) + CeilDiv(m * (B % 10000), 10000) <= r

\* The largest j in lo..hi with PctLeq(A, B, j), given PctLeq(A, B, lo).
RECURSIVE PctSearch(_, _, _, _)
PctSearch(A, B, lo, hi) ==
    IF lo = hi THEN lo
    ELSE LET mid == (lo + hi + 1) \div 2
         IN  IF PctLeq(A, B, mid) THEN PctSearch(A, B, mid, hi)
             ELSE PctSearch(A, B, lo, mid - 1)

\* floor(std / avg * 100.0) of lines 284-288 for n > 1 positive scores of
\* sum S and sum of squares Q: var = (n * Q - S * S) / (n * (n - 1)) and
\* avg = S / n, so (std / avg) ^ 2 = n * (n * Q - S * S) / ((n - 1) * S * S),
\* which is below n <= 14 < 16.
StdOverAvgPct(n, S, Q) == PctSearch(n * (n * Q - S * S), (n - 1) * S * S, 0, 100 * 4)

\* consistency_score without the floor at 0.
consistency_score_unfloored(scores) ==
    LET positive_scores == Positive(scores)
        n == Len(positive_scores)
        S == SeqSum(positive_scores)
    IN  IF n > 1 /\ S > 0
        THEN 100 - StdOverAvgPct(n, S, SeqSum(Squares(positive_scores)))
        ELSE 0

\* Lines 281-288, in whole percent rounded up.
consistency_score(scores) ==
    LET positive_scores == Positive(scores)
        n == Len(positive_scores)
        S == SeqSum(positive_scores)
    IN  IF n > 1 /\ S > 0
        THEN Max2(0, 100 - StdOverAvgPct(n, S, SeqSum(Squares(positive_scores))))
        ELSE 0

\* Line 291.
boom_thr(pos) ==
    CASE pos = "QB" -> Pts(25)
      [] pos = "RB" -> Pts(20)
      [] pos = "WR" -> Pts(20)
      [] pos = "TE" -> Pts(15)
      [] pos = "K" -> Pts(12)
      [] pos = "D/ST" -> Pts(15)
      [] OTHER -> Pts(15)

\* Line 292.
bust_thr(pos) ==
    CASE pos = "QB" -> Pts(10)
      [] pos = "RB" -> Pts(5)
      [] pos = "WR" -> Pts(5)
      [] pos = "TE" -> Pts(3)
      [] pos = "K" -> Pts(3)
      [] pos = "D/ST" -> Pts(2)
      [] OTHER -> Pts(5)

\* Line 293.
boom_games(scores, pos) == Len(SelectSeq(scores, LAMBDA s : s >= boom_thr(pos)))

\* bust_games counting a week without points as a bust.
bust_games_with_zero(scores, pos) ==
    Len(SelectSeq(scores, LAMBDA s : 0 <= s /\ s <= bust_thr(pos)))

\* Line 294.
bust_games(scores, pos) == Len(SelectSeq(scores, LAMBDA s : 0 < s /\ s <= bust_thr(pos)))

\* Line 278.
games_played(scores) == Len(Positive(scores))

\* Line 297.
best_week(scores) == SeqMax(scores)

\* Line 298: the worst non-zero week, 0 without one.
worst_week(scores) == IF Positive(scores) = <<>> THEN 0 ELSE SeqMin(Positive(scores))

\* Lines 249-303: the info record of one player.  season_points and the
\* scores of weekly_scores are in hundredths; best_week and worst_week are
\* unrounded, in units.
player_info(pdata) ==
    LET scores == complete_weeks(pdata.weekly_scores)
    IN  [player_name |-> pdata.player_name,
         position |-> pdata.position,
         pro_team |-> pdata.pro_team,
         injury_status |-> pdata.injury_status,
         season_points |-> round2(SeqSum(scores)),
         games_played |-> games_played(scores),
         weekly_scores |-> wk_list(scores),
         consistency_score |-> consistency_score(scores),
         non_scoring_games |-> 14 - games_played(scores),
         boom_games |-> boom_games(scores, pdata.position),
         bust_games |-> bust_games(scores, pdata.position),
         best_week |-> best_week(scores),
         worst_week |-> worst_week(scores),
         playoff_points |-> 0]

\* Lines 246-303.
player_stats(all_player_data) ==
    [pid \in DOMAIN all_player_data |-> player_info(all_player_data[pid])]

\* ------------------------------------------------------------------------
\* extract_draft_data_with_stats: teams, owners and draft picks
\* ------------------------------------------------------------------------

\* A team of the season document.  hasId is FALSE for a team object
\* without "id".
TeamDoc(hasId, id, name, owner) ==
    [hasId |-> hasId, id |-> id, name |-> name, primaryOwner |-> owner]

\* A member of the season document, with its "firstName lastName".
MemberDoc(id, name) == [id |-> id, fullName |-> name]

\* Team 1 is owned by a listed member, team 2 by an unlisted one.
SeasonTeams == <<TeamDoc(TRUE, 1, "Alpha", "m1"), TeamDoc(TRUE, 2, "Beta", "m2")>>

SeasonMembers == <<MemberDoc("m1", "Ann Archer")>>

\* Lines 234-240: member id -> name.
members(season_data) ==
    [mid \in {season_data.members[i].id : i \in DOMAIN season_data.members} |->
        LET i == CHOOSE j \in DOMAIN season_data.members :
                    /\ season_data.members[j].id = mid
                    /\ \A k \in DOMAIN season_data.members :
                            season_data.members[k].id = mid => k <= j
        IN  season_data.members[i].fullName]

\* Lines 227-243 (and 362-368): team id -> name, owner, owner_name; a later
\* team of the same id replaces an earlier one.
teams(season_data) ==
    [tid \in {season_data.teams[i].id : i \in DOMAIN season_data.teams} |->
        LET i == CHOOSE j \in DOMAIN season_data.teams :
                    /\ season_data.teams[j].id = tid
                    /\ \A k \in DOMAIN season_data.teams :
                            season_data.teams[k].id = tid => k <= j
            t == season_data.teams[i]
            ms == members(season_data)
        IN  [name |-> t.name, owner |-> t.primaryOwner,
             owner_name |-> IF t.primaryOwner \in DOMAIN ms THEN ms[t.primaryOwner]
                            ELSE t.primaryOwner]]

\* team["id"] of lines 228, 364 and 433 raises KeyError for a team without id.
TeamsRaise(season_data) == \E i \in DOMAIN season_data.teams : ~season_data.teams[i].hasId

\* A pick of draftDetail.  playerId NoPid is a pick without one; hasPlayer
\* tells whether the pick embeds playerPoolEntry.player.
PickDoc(pid, hasPlayer, player, overall, teamId) ==
    [playerId |-> pid, hasPlayer |-> hasPlayer, player |-> player,
     roundId |-> 1, overallPickNumber |-> overall, teamId |-> teamId]

\* Lines 311-322: the fields of the pick itself (roundPickNumber, keeper and
\* bidAmount are copied likewise and left out).
pick_base(pick, year, tms) ==
    [year |-> year,
     round |-> pick.roundId,
     overall_pick |-> pick.overallPickNumber,
     team_id |-> pick.teamId,
     team_name |-> IF pick.teamId \in DOMAIN tms THEN tms[pick.teamId].name ELSE "Unknown",
     owner_name |-> IF pick.teamId \in DOMAIN tms THEN tms[pick.teamId].owner_name
                    ELSE "Unknown",
     player_id |-> pick.playerId]

\* Lines 329-337: the identity of a pick without statistics.
pick_identity(pick) ==
    IF pick.hasPlayer
    THEN [player_name |-> pick.player.fullName,
          position |-> get_position_from_player(pick.player),
          pro_team |-> pick.player.proTeamId]
    ELSE [player_name |-> "Unknown", position |-> "Unknown", pro_team |-> 0]

\* Lines 339-350: the zero statistics of a player who never played.
zero_stats ==
    [injury_status |-> "DNP",
     season_points |-> 0,
     games_played |-> 0,
     non_scoring_games |-> 14,
     weekly_scores |-> [w \in Weeks |-> [week |-> w, score |-> 0]],
     consistency_score |-> 0,
     boom_games |-> 0,
     bust_games |-> 0,
     best_week |-> 0,
     worst_week |-> 0,
     playoff_points |-> 0]

\* Lines 310-352: one enriched pick.
pick_info(pick, year, tms, stats) ==
    IF pick.playerId \in DOMAIN stats
    THEN stats[pick.playerId] @@ pick_base(pick, year, tms)
    ELSE zero_stats @@ pick_identity(pick) @@ pick_base(pick, year, tms)

\* Lines 306-352: the enriched picks, one per pick of draftDetail, in order.
enriched_picks(picks, year, tms, stats) ==
    [i \in DOMAIN picks |-> pick_info(picks[i], year, tms, stats)]

\* Lines 215-354 after the weekly loop: all_player_data is the player map
\* the loop built.
extract_draft_data_with_stats(season_data, year, pd) ==
    [year |-> year,
     picks |-> enriched_picks(season_data.picks, year, teams(season_data),
                              player_stats(FillDrafted(pd, season_data.picks)))]

\* ------------------------------------------------------------------------
\* State
\* ------------------------------------------------------------------------

VARIABLES
    pc,           \* where the run is: "weeks", "stats", "fold", "years", "metrics", "done", "raised"
    year,         \* the season being processed
    posId,        \* input: the defaultPositionId the source reports for the rostered player
    week,         \* _player_weeks_from_schedule: the loop variable
    player_data,  \* _player_weeks_from_schedule: player id -> record
    lastFetch,    \* history: the outcome of the last fetch of a week, or in
                  \* fetch_all_data of a season: "none", "fail", "empty", "ok"
    sighted,      \* history: the player ids of the roster entries processed so far
    raw_picks,    \* input: the picks of the season document's draftDetail
    stats,        \* extract_draft_data_with_stats: player_stats
    draft_info,   \* extract_draft_data_with_stats: the result
    args,         \* fetch_all_data: start_year and end_year
    all_data,     \* fetch_all_data: matchups, standings and drafts
    raised,       \* the exception that left fetch_all_data, "none" without one
    by_owner,     \* calculate_draft_metrics: metrics["by_owner"]
    by_position,  \* calculate_draft_metrics: metrics["by_position"]
    by_round,     \* calculate_draft_metrics: metrics["by_round"]
    folded        \* history: the picks calculate_draft_metrics has processed, in order

seasonVars == <<year, posId, week, player_data, lastFetch, sighted, raw_picks, stats,
                draft_info>>

fetchVars == <<args, all_data, raised>>

metricVars == <<by_owner, by_position, by_round, folded>>

vars == <<pc, seasonVars, fetchVars, metricVars>>

\* The values of the variables a specification does not use.
IdleSeason ==
    /\ year = 2019
    /\ posId = 2
    /\ week = 1
    /\ player_data = <<>>
    /\ lastFetch = "none"
    /\ sighted = {}
    /\ raw_picks = <<>>
    /\ stats = <<>>
    /\ draft_info = [year |-> 2019, picks |-> <<>>]

IdleFetch ==
    /\ args = [start_year |-> 2019, end_year |-> 2019]
    /\ all_data = [matchups |-> <<>>, standings |-> <<>>, drafts |-> <<>>]
    /\ raised = "none"

IdleMetrics ==
    /\ by_owner = <<>>
    /\ by_position = <<>>
    /\ by_round = <<>>
    /\ folded = <<>>

\* ------------------------------------------------------------------------
\* _player_weeks_from_schedule: the weekly loop (lines 121-188)
\* ------------------------------------------------------------------------

\* The outcome of the fetch of one week: the request or its parse failed,
\* or the document's teams.
FetchFailed == [kind |-> "fail", teams |-> <<>>]

FetchOk(tms) == [kind |-> "ok", teams |-> tms]

\* WeekStep losing the player map on a failure.
WeekStep_reset(pd, w, outcome) ==
    IF outcome.kind = "fail" THEN <<>> ELSE ProcessDoc(pd, w, outcome.teams)

\* One iteration of the loop: lines 123-132 on a failure, 135-186 otherwise.
WeekStep(pd, w, outcome) ==
    IF outcome.kind = "fail" THEN pd ELSE ProcessDoc(pd, w, outcome.teams)

RECURSIVE Flatten(_)
Flatten(ss) == IF ss = <<>> THEN <<>> ELSE Head(ss) \o Flatten(Tail(ss))

\* The playerId of every roster entry of a document.
PidsOf(tms) == {Flatten(tms)[i].playerId : i \in DOMAIN Flatten(tms)}

\* Lines 123-132: the fetch of the week fails; the loop continues.
WeekFail ==
    /\ pc = "weeks"
    /\ week <= matchup_period_count
    /\ player_data' = WeekStep(player_data, week, FetchFailed)
    /\ lastFetch' = "fail"
    /\ week' = week + 1
    /\ UNCHANGED <<pc, year, posId, sighted, raw_picks, stats, draft_info, fetchVars,
                   metricVars>>

\* Lines 123-128 and 135-188: the week's document is processed.
WeekOk ==
    /\ pc = "weeks"
    /\ week <= matchup_period_count
    /\ \E tms \in WeekDocs(week, posId) :
          /\ player_data' = WeekStep(player_data, week, FetchOk(tms))
          /\ sighted' = sighted \cup (PidsOf(tms) \ {NoPid})
    /\ lastFetch' = "ok"
    /\ week' = week + 1
    /\ UNCHANGED <<pc, year, posId, raw_picks, stats, draft_info, fetchVars, metricVars>>

TeamOfPick(i) == 1 + ((i - 1) % 2)

\* The picks of a season's draftDetail: the i-th pick is overall pick i of
\* team 1 or 2 in turn; it has no playerId, or the id of the rostered or of
\* another player, and embeds the player's metadata or not.
PickDocs(i, pos) ==
    {PickDoc(pid, FALSE, NoPlayer, i, TeamOfPick(i)) : pid \in {NoPid, 2}}
    \cup {PickDoc(pid, TRUE, PlayerDoc(IF pid = NoPid THEN 2 ELSE pid, pos, <<>>),
                   i, TeamOfPick(i)) : pid \in {NoPid} \cup DraftPids}

RECURSIVE PickLists(_, _)
PickLists(n, pos) ==
    IF n = 0 THEN {<<>>}
    ELSE LET shorter == PickLists(n - 1, pos)
         IN  shorter \cup {Append(s, x) : s \in {t \in shorter : Len(t) = n - 1},
                                           x \in PickDocs(n, pos)}

SeasonDoc(tms, mbs, picks) == [teams |-> tms, members |-> mbs, picks |-> picks]

\* Lines 190-201 and 223-354: the loop is over.  draftDetail is an input no
\* step changes; lines 115-119 copy its player ids into drafted_players,
\* which line 191 is the first to read, so the picks are drawn here.
ExtractDraft ==
    /\ pc = "weeks"
    /\ week > matchup_period_count
    /\ \E picks \in PickLists(MaxPicks, posId) :
          /\ raw_picks' = picks
          /\ draft_info' = extract_draft_data_with_stats(
                               SeasonDoc(SeasonTeams, SeasonMembers, picks), year, player_data)
    /\ player_data' = FillDrafted(player_data, raw_picks')
    /\ stats' = player_stats(player_data')
    /\ lastFetch' = "none"
    /\ pc' = "done"
    /\ UNCHANGED <<year, posId, week, sighted, fetchVars, metricVars>>

\* extract_draft_data_with_stats on the season document of a year, for a
\* rostered player of position RB or of a position the map does not know.
InitSeason ==
    /\ pc = "weeks"
    /\ year = 2019
    /\ posId \in {2, 0}
    /\ week = 1
    /\ player_data = <<>>
    /\ lastFetch = "none"
    /\ sighted = {}
    /\ raw_picks = <<>>
    /\ stats = <<>>
    /\ draft_info = [year |-> year, picks |-> <<>>]
    /\ IdleFetch
    /\ IdleMetrics

NextSeason == WeekFail \/ WeekOk \/ ExtractDraft

SpecSeason == InitSeason /\ [][NextSeason]_vars

\* ------------------------------------------------------------------------
\* Claims about the weekly loop and the enrichment (SpecSeason)
\* ------------------------------------------------------------------------

\* The score a roster entry carries for week w: its real stat line, else
\* its positive applied total; <<>> without one.
EntryOffer(entry, w) ==
    LET i == IF entry.ppe = "player" THEN FirstRealStat(entry.player.stats, w, 1) ELSE 0
    IN  IF i > 0 THEN <<entry.player.stats[i].appliedTotal>>
        ELSE IF entry.ppe # "none" /\ entry.appliedStatTotal > 0
             THEN <<entry.appliedStatTotal>>
        ELSE <<>>

\* The scores the entries of player pid carry in a document, in order.
RECURSIVE OffersOf(_, _, _)
OffersOf(entries, w, pid) ==
    IF entries = <<>> THEN <<>>
    ELSE (IF Head(entries).playerId = pid THEN EntryOffer(Head(entries), w) ELSE <<>>)
         \o OffersOf(Tail(entries), w, pid)

Recorded(pd, pid, w) == pid \in DOMAIN pd /\ w \in DOMAIN pd[pid].weekly_scores

\* C1: whenever the loop processes a week's document in which a player has
\* two or more roster entries carrying different scores, the score recorded
\* for the player and the week is the maximum of those scores.
C1_DuplicateKeepsMax ==
    [][\A tms \in WeekDocs(week, posId), pid \in RosterPids :
        LET offers == OffersOf(Flatten(tms), week, pid)
        IN  ( /\ pc = "weeks"
              /\ week <= matchup_period_count
              /\ lastFetch' = "ok"
              /\ player_data' = WeekStep(player_data, week, FetchOk(tms))
              /\ Len(offers) >= 2
              /\ \E i, j \in DOMAIN offers : offers[i] # offers[j] )
            => ( /\ Recorded(player_data', pid, week)
                 /\ player_data'[pid].weekly_scores[week] = SeqMax(offers) )]_vars

DerivedFields ==
    {"injury_status", "season_points", "games_played", "non_scoring_games",
     "weekly_scores", "consistency_score", "boom_games", "bust_games", "best_week",
     "worst_week", "playoff_points"}

\* The draft picks whose player appeared in no roster entry of a fetched week.
NeverRostered == {i \in DOMAIN raw_picks : raw_picks[i].playerId \notin sighted}

\* C2: a draft pick with a player id that appeared in no roster entry of a
\* fetched week is enriched with every derived field present, injury_status
\* "DNP", season_points 0, games_played 0, non_scoring_games 14, a zero
\* score for each week 1..14, and consistency_score, boom_games, bust_games,
\* best_week, worst_week and playoff_points 0.
C2_UnmatchedPickIsZeroDNP ==
    pc = "done" =>
        \A i \in NeverRostered :
            raw_picks[i].playerId # NoPid =>
                LET p == draft_info.picks[i]
                IN  /\ Len(draft_info.picks) = Len(raw_picks)
                    /\ DerivedFields \subseteq DOMAIN p
                    /\ p.player_id = raw_picks[i].playerId
                    /\ p.injury_status = "DNP"
                    /\ p.season_points = 0
                    /\ p.games_played = 0
                    /\ p.non_scoring_games = 14
                    /\ DOMAIN p.weekly_scores = 1..14
                    /\ \A w \in 1..14 : p.weekly_scores[w] = [week |-> w, score |-> 0]
                    /\ p.consistency_score = 0
                    /\ p.boom_games = 0
                    /\ p.bust_games = 0
                    /\ p.best_week = 0
                    /\ p.worst_week = 0
                    /\ p.playoff_points = 0

\* A run in which the rostered player scored and the pick is of another
\* player, who was never rostered.
C2_Witness ==
    /\ pc = "done"
    /\ sighted = {1}
    /\ \E w \in Weeks : Recorded(player_data, 1, w) /\ player_data[1].weekly_scores[w] > 0
    /\ \E i \in NeverRostered : raw_picks[i].playerId = 2

\* C3: a step in which the fetch of week w fails leaves the player map as
\* the document of week w without roster entries would, with no score of
\* week w in it, and moves the loop to week w + 1; and no step ever changes
\* whether a week before the loop variable has a score, or that score, so a
\* failed week is not filled in later.
C3_FailedWeekSkipped ==
    [][ /\ lastFetch' = "fail" =>
            /\ pc' = "weeks"
            /\ week' = week + 1
            /\ player_data' = WeekStep(player_data, week, FetchOk(<<>>))
            /\ \A pid \in DOMAIN player_data' : ~Recorded(player_data', pid, week)
        /\ week' >= week
        /\ \A pid \in DOMAIN player_data', w \in 1..(week - 1) :
            /\ Recorded(player_data', pid, w) <=> Recorded(player_data, pid, w)
            /\ Recorded(player_data, pid, w) =>
                 player_data'[pid].weekly_scores[w] = player_data[pid].weekly_scores[w]
      ]_vars

\* The fetch of week 2 failed after week 1 gave the rostered player a score.
C3_Witness ==
    /\ pc = "weeks"
    /\ lastFetch = "fail"
    /\ week = 3
    /\ Recorded(player_data, 1, 1)
    /\ ~Recorded(player_data, 1, 2)

\* C4: a draft pick whose player appeared in no roster entry of a fetched
\* week is enriched with the name, position and pro team of the player
\* metadata the pick embeds when it embeds one, and with "Unknown",
\* "Unknown" and 0 otherwise.
C4_FallbackIdentityFromPick ==
    pc = "done" =>
        \A i \in NeverRostered :
            LET p == draft_info.picks[i]
                pick == raw_picks[i]
            IN  IF pick.hasPlayer
                THEN /\ p.player_name = pick.player.fullName
                     /\ p.position = get_position_from_player(pick.player)
                     /\ p.pro_team = pick.player.proTeamId
                ELSE /\ p.player_name = "Unknown"
                     /\ p.position = "Unknown"
                     /\ p.pro_team = 0

\* C5: no roster entry without a playerId adds a player to the player map,
\* and a draft pick without a playerId has no record among the enriched
\* picks: every enriched pick carries a real player_id and there is one per
\* pick with a playerId.
C5_MissingIdentitySkipped ==
    /\ NoPid \notin DOMAIN player_data
    /\ DOMAIN player_data \subseteq sighted \cup drafted_players(raw_picks)
    /\ pc = "done" =>
        /\ \A j \in DOMAIN draft_info.picks : draft_info.picks[j].player_id # NoPid
        /\ Len(draft_info.picks) =
              Cardinality({i \in DOMAIN raw_picks : raw_picks[i].playerId # NoPid})

\* ------------------------------------------------------------------------
\* extract_draft_data_with_stats: the statistics (lines 246-303) on their own
\* ------------------------------------------------------------------------

\* The positions a player record can hold.
Positions == {get_position_from_player([defaultPositionId |-> i]) : i \in PositionIds}
             \cup {"Unknown"}

\* A real stat line below zero: line 174 records its appliedTotal as it is.
NegativeScore == 0 - Pts(2)

\* The scores a week can have been given.
WeekScores == StatValues \cup AppliedValues \cup {NegativeScore}

\* A player with a score below zero in every one of the weeks.
LosingSeason == [w \in Weeks |-> NegativeScore]

\* The weekly_scores the loop can have built: a score for some of the weeks
\* 1..MaxDataWeek, or the losing season.
ScoreMaps ==
    UNION {[ws -> WeekScores] : ws \in SUBSET (1..MaxDataWeek)} \cup {LosingSeason}

InitStats ==
    /\ pc = "stats"
    /\ \E pos \in Positions, sm \in ScoreMaps :
          player_data = [pid \in RosterPids |->
                           [NewPlayer("ACTIVE") EXCEPT !.position = pos, !.weekly_scores = sm]]
    /\ year = 2019
    /\ posId = 2
    /\ week = matchup_period_count + 1
    /\ lastFetch = "none"
    /\ sighted = {}
    /\ raw_picks = <<>>
    /\ stats = <<>>
    /\ draft_info = [year |-> year, picks |-> <<>>]
    /\ IdleFetch
    /\ IdleMetrics

\* Lines 246-303.
DeriveStats ==
    /\ pc = "stats"
    /\ stats' = player_stats(player_data)
    /\ pc' = "done"
    /\ UNCHANGED <<year, posId, week, player_data, lastFetch, sighted, raw_picks,
                   draft_info, fetchVars, metricVars>>

NextStats == DeriveStats

SpecStats == InitStats /\ [][NextStats]_vars

\* ------------------------------------------------------------------------
\* Claims about the statistics of a player (SpecStats)
\* ------------------------------------------------------------------------

\* The score of week w in a player's record, 0 for a week without one.
ScoreOf(rec, w) == IF w \in DOMAIN rec.weekly_scores THEN rec.weekly_scores[w] ELSE 0

PositiveWeeks(rec) == {w \in 1..14 : ScoreOf(rec, w) > 0}

\* C9: the consistency_score of a derived player record is 0 when fewer
\* than two of the weeks 1..14 have a score above 0, and is between 0 and
\* 100 when two or more have.
C9_ConsistencyRange ==
    pc = "done" =>
        \A pid \in DOMAIN stats :
            /\ Cardinality(PositiveWeeks(player_data[pid])) < 2 =>
                 stats[pid].consistency_score = 0
            /\ Cardinality(PositiveWeeks(player_data[pid])) >= 2 =>
                 /\ stats[pid].consistency_score >= 0
                 /\ stats[pid].consistency_score <= 100

\* Two positive weeks so far apart that the floor at 0 applies, the other
\* weeks without points.
C9_Witness ==
    /\ pc = "done"
    /\ \E pid \in DOMAIN stats :
          /\ PositiveWeeks(player_data[pid]) = {1, 3}
          /\ ScoreOf(player_data[pid], 1) = TinyScore
          /\ ScoreOf(player_data[pid], 3) = Pts(25)
          /\ stats[pid].consistency_score = 0

\* The thresholds of the claim, in points: boom, bust.
ClaimThresholds(pos) ==
    CASE pos = "QB" -> <<25, 10>>
      [] pos = "RB" -> <<20, 5>>
      [] pos = "WR" -> <<20, 5>>
      [] pos = "TE" -> <<15, 3>>
      [] pos = "K" -> <<12, 3>>
      [] pos = "D/ST" -> <<15, 2>>
      [] OTHER -> <<15, 5>>

RBScenario == (1 :> Pts(20)) @@ (2 :> 0) @@ (3 :> Pts(25))

\* C10: boom_games of a derived player record is the number of weeks 1..14
\* with a score at or above the boom threshold of the position, bust_games
\* the number of weeks with a score above 0 and at or below its bust
\* threshold, so that a week of score 0 is no bust; an RB with scores
\* {1: 20, 2: 0, 3: 25} has boom_games 2, bust_games 0, games_played 2,
\* season_points 45, best_week 25 and worst_week 20.
C10_BoomBustCounts ==
    pc = "done" =>
        \A pid \in DOMAIN stats :
            LET rec == player_data[pid]
                thr == ClaimThresholds(rec.position)
            IN  /\ stats[pid].boom_games =
                     Cardinality({w \in 1..14 : ScoreOf(rec, w) >= Pts(thr[1])})
                /\ stats[pid].bust_games =
                     Cardinality({w \in 1..14 :
                                    0 < ScoreOf(rec, w) /\ ScoreOf(rec, w) <= Pts(thr[2])})
                /\ (rec.position = "RB" /\ rec.weekly_scores = RBScenario) =>
                     /\ stats[pid].boom_games = 2
                     /\ stats[pid].bust_games = 0
                     /\ stats[pid].games_played = 2
                     /\ stats[pid].season_points = Hundredths(45)
                     /\ stats[pid].best_week = Pts(25)
                     /\ stats[pid].worst_week = Pts(20)

\* The RB of the scenario.
C10_Witness ==
    /\ pc = "done"
    /\ \E pid \in DOMAIN stats :
          /\ player_data[pid].position = "RB"
          /\ player_data[pid].weekly_scores = RBScenario
          /\ stats[pid].boom_games = 2

\* ------------------------------------------------------------------------
\* calculate_draft_metrics (lines 449-505)
\* ------------------------------------------------------------------------

\* The most picks calculate_draft_metrics is given on its own.
MaxFold == 3

\* The floats of the metrics are exact fractions <<numerator, denominator>>
\* in lowest terms with a positive denominator, so that equal values are
\* equal tuples; the rounding of the floating-point operations is left out.
Abs(x) == IF x < 0 THEN 0 - x ELSE x

RECURSIVE GCD(_, _)
GCD(a, b) == IF b = 0 THEN a ELSE GCD(b, a % b)

Rat(n, d) ==
    LET g == GCD(Abs(n), Abs(d))
    IN  IF d < 0 THEN <<(0 - n) \div g, (0 - d) \div g>> ELSE <<n \div g, d \div g>>

RatZero == Rat(0, 1)

RatAdd(a, b) == Rat(a[1] * b[2] + b[1] * a[2], a[2] * b[2])

RatLess(a, b) == a[1] * b[2] < b[1] * a[2]

\* Line 474.
draft_capital(pick) == 193 - pick.overall_pick

\* pick_value dividing by every draft_capital but zero.
pick_value_unguarded(pick) ==
    IF draft_capital(pick) = 0 THEN RatZero
    ELSE Rat(pick.season_points, draft_capital(pick))

\* Lines 474-476, in hundredths of a point per unit of draft capital.
pick_value(pick) ==
    IF draft_capital(pick) > 0 THEN Rat(pick.season_points, draft_capital(pick))
    ELSE RatZero

\* The mean of the previous average and the current score.
consistency_avg_halved(prev, n, curr) == Rat(prev[1] + curr * prev[2], prev[2] * 2)

\* Line 491, for n > 0 (n is total_picks after line 480).
consistency_avg(prev, n, curr) == Rat(prev[1] * (n - 1) + curr * prev[2], prev[2] * n)

\* Lines 452-462: the aggregate of an owner without picks.  best_pick and
\* worst_pick are <<>> while the key is absent and <<pick>> once it is set.
new_owner ==
    [total_picks |-> 0,
     total_value |-> RatZero,
     boom_players |-> 0,
     bust_players |-> 0,
     injured_players |-> 0,
     consistency_avg |-> RatZero,
     playoff_performers |-> 0,
     best_pick_value |-> RatZero,
     worst_pick_value |-> RatZero,
     best_pick |-> <<>>,
     worst_pick |-> <<>>]

\* count_pick adding the boom and bust games of the pick to the counters.
count_pick_by_games(o, pick) ==
    [o EXCEPT !.total_picks = @ + 1,
              !.total_value = RatAdd(@, pick_value(pick)),
              !.boom_players = @ + pick.boom_games,
              !.bust_players = @ + pick.bust_games,
              !.injured_players = @ + (IF pick.non_scoring_games > 4 THEN 1 ELSE 0),
              !.playoff_performers = @ + (IF pick.playoff_points > Hundredths(30) THEN 1 ELSE 0)]

\* Lines 480-485.
count_pick(o, pick) ==
    [o EXCEPT !.total_picks = @ + 1,
              !.total_value = RatAdd(@, pick_value(pick)),
              !.boom_players = @ + (IF pick.boom_games > 3 THEN 1 ELSE 0),
              !.bust_players = @ + (IF pick.bust_games > 5 THEN 1 ELSE 0),
              !.injured_players = @ + (IF pick.non_scoring_games > 4 THEN 1 ELSE 0),
              !.playoff_performers = @ + (IF pick.playoff_points > Hundredths(30) THEN 1 ELSE 0)]

\* Lines 487-491.
average_pick(o, pick) ==
    IF pick.consistency_score > 0
    THEN [o EXCEPT !.consistency_avg =
                      consistency_avg(@, o.total_picks, pick.consistency_score)]
    ELSE o

\* Lines 493-495.
best_of(o, pick) ==
    IF RatLess(o.best_pick_value, pick_value(pick))
    THEN [o EXCEPT !.best_pick_value = pick_value(pick), !.best_pick = <<pick>>]
    ELSE o

\* Lines 497-499.
worst_of(o, pick) ==
    IF o.worst_pick_value = RatZero \/ RatLess(pick_value(pick), o.worst_pick_value)
    THEN [o EXCEPT !.worst_pick_value = pick_value(pick), !.worst_pick = <<pick>>]
    ELSE o

\* Lines 470 and 479-499: the owner aggregates after one more pick.
fold_owner(bo, pick) ==
    LET owner == pick.owner_name
        o == IF owner \in DOMAIN bo THEN bo[owner] ELSE new_owner
        updated == worst_of(best_of(average_pick(count_pick(o, pick), pick), pick), pick)
    IN  [k \in DOMAIN bo \cup {owner} |-> IF k = owner THEN updated ELSE bo[k]]

\* Lines 464-465 and 502-503: m[k1][k2].append(pick) on nested defaultdicts.
append_at(m, k1, k2, pick) ==
    LET inner == IF k1 \in DOMAIN m THEN m[k1] ELSE <<>>
        list == IF k2 \in DOMAIN inner THEN inner[k2] ELSE <<>>
        inner2 == [k \in DOMAIN inner \cup {k2} |->
                      IF k = k2 THEN Append(list, pick) ELSE inner[k]]
    IN  [k \in DOMAIN m \cup {k1} |-> IF k = k1 THEN inner2 ELSE m[k]]

\* A pick of draft_data with the fields lines 470-490 read: of an owner, at
\* an overall position, with the statistics of a player.
MetricPick(owner, overall, st) ==
    [owner_name |-> owner,
     position |-> "RB",
     round |-> 1 + ((overall - 1) \div 12),
     overall_pick |-> overall,
     season_points |-> st.season_points,
     consistency_score |-> st.consistency_score,
     boom_games |-> st.boom_games,
     bust_games |-> st.bust_games,
     non_scoring_games |-> st.non_scoring_games,
     playoff_points |-> 0]

\* The statistics of a player who never played, of a steady one and of a
\* streaky one who missed five weeks.
MetricStats ==
    {[season_points |-> 0, consistency_score |-> 0, boom_games |-> 0,
      bust_games |-> 0, non_scoring_games |-> 14],
     [season_points |-> Hundredths(192), consistency_score |-> 80, boom_games |-> 4,
      bust_games |-> 0, non_scoring_games |-> 0],
     [season_points |-> Hundredths(10), consistency_score |-> 60, boom_games |-> 1,
      bust_games |-> 6, non_scoring_games |-> 5]}

\* The picks around the end of the draft capital, and the first pick.
MetricOveralls == {1, 192, 193, 194}

MetricOwners == {"Ann Archer", "m2"}

MetricPicks ==
    {MetricPick(o, n, st) : o \in MetricOwners, n \in MetricOveralls, st \in MetricStats}

InitMetrics ==
    /\ pc = "fold"
    /\ by_owner = <<>>
    /\ by_position = <<>>
    /\ by_round = <<>>
    /\ folded = <<>>
    /\ IdleSeason
    /\ IdleFetch

\* Lines 469-503: one iteration of the loop over the picks.
Fold(pick) ==
    /\ by_owner' = fold_owner(by_owner, pick)
    /\ by_position' = append_at(by_position, pick.position, pick.round, pick)
    /\ by_round' = append_at(by_round, pick.round, pick.position, pick)
    /\ folded' = Append(folded, pick)

\* calculate_draft_metrics on the picks of a draft_data, pick by pick.
FoldPick ==
    /\ pc = "fold"
    /\ Len(folded) < MaxFold
    /\ \E pick \in MetricPicks : Fold(pick)
    /\ UNCHANGED <<pc, seasonVars, fetchVars>>

\* Line 505: the loop is over.
ReturnMetrics ==
    /\ pc = "fold"
    /\ pc' = "done"
    /\ UNCHANGED <<seasonVars, fetchVars, metricVars>>

NextMetrics == FoldPick \/ ReturnMetrics

SpecMetrics == InitMetrics /\ [][NextMetrics]_vars

\* ------------------------------------------------------------------------
\* Claims about calculate_draft_metrics (SpecMetrics)
\* ------------------------------------------------------------------------

\* The picks of an owner among the first k processed picks.
OwnerPicks(owner, k) == SelectSeq(SubSeq(folded, 1, k), LAMBDA p : p.owner_name = owner)

ConsistencyOf(picks) == [i \in DOMAIN picks |-> picks[i].consistency_score]

\* The average the claim prescribes after the first k processed picks.
RECURSIVE ClaimedAvg(_, _)
ClaimedAvg(owner, k) ==
    IF k = 0 THEN RatZero
    ELSE LET old_avg == ClaimedAvg(owner, k - 1)
             n == Len(OwnerPicks(owner, k))
             c == folded[k].consistency_score
         IN  IF folded[k].owner_name = owner /\ c > 0
             THEN Rat(old_avg[1] * (n - 1) + c * old_avg[2], old_avg[2] * n)
             ELSE old_avg

\* The averages of the claim's scenario, by the number of its picks processed.
ScenarioAvg(k) == IF k = 1 THEN Rat(0, 1) ELSE IF k = 2 THEN Rat(40, 1) ELSE Rat(40 * 2 + 60, 3)

\* C7: after every processed pick, the consistency_avg of each owner is the
\* value obtained by applying, pick by pick, (old_avg*(n-1) + score)/n for a
\* pick of the owner with a consistency_score > 0, n being the number of the
\* owner's picks so far with or without consistency, and by leaving the
\* average alone for a score of 0; an owner whose picks have the scores
\* 0, 80, 60 in that order has the averages 0, 40 and (40*2+60)/3.
C7_RunningConsistencyAvg ==
    \A owner \in DOMAIN by_owner :
        LET mine == ConsistencyOf(OwnerPicks(owner, Len(folded)))
        IN  /\ by_owner[owner].consistency_avg = ClaimedAvg(owner, Len(folded))
            /\ by_owner[owner].total_picks = Len(mine)
            /\ (Len(mine) <= 3 /\ mine = SubSeq(<<0, 80, 60>>, 1, Len(mine))) =>
                   by_owner[owner].consistency_avg = ScenarioAvg(Len(mine))

\* An owner has had the three picks of the scenario.
C7_Witness ==
    \E owner \in DOMAIN by_owner :
        /\ ConsistencyOf(OwnerPicks(owner, Len(folded))) = <<0, 80, 60>>
        /\ by_owner[owner].consistency_avg = <<140, 3>>

\* The pick_value the claim prescribes.
ClaimedValue(pick) ==
    IF pick.overall_pick >= 193 THEN RatZero
    ELSE Rat(pick.season_points, 193 - pick.overall_pick)

RECURSIVE ClaimedTotal(_, _)
ClaimedTotal(owner, k) ==
    IF k = 0 THEN RatZero
    ELSE IF folded[k].owner_name = owner
         THEN RatAdd(ClaimedTotal(owner, k - 1), ClaimedValue(folded[k]))
         ELSE ClaimedTotal(owner, k - 1)

\* C8: a pick at overall position 193 or later has pick_value 0 and adds 0
\* to its owner's total_value, a pick before 193 has pick_value
\* season_points / (193 - overall_pick), and no pick_value is negative: the
\* total_value of every owner is the sum of these values over the owner's
\* picks, and an owner with a single pick has that pick's value as
\* worst_pick_value.
C8_PickValueGuard ==
    \A owner \in DOMAIN by_owner :
        LET o == by_owner[owner]
            mine == OwnerPicks(owner, Len(folded))
        IN  /\ o.total_value = ClaimedTotal(owner, Len(folded))
            /\ o.worst_pick_value[1] >= 0
            /\ o.best_pick_value[1] >= 0
            /\ Len(mine) = 1 => o.worst_pick_value = ClaimedValue(mine[1])

\* An owner has had a pick with points at position 193 or later and one
\* before it.
C8_Witness ==
    \E owner \in DOMAIN by_owner :
        LET mine == OwnerPicks(owner, Len(folded))
        IN  /\ \E i \in DOMAIN mine : mine[i].overall_pick >= 193 /\ mine[i].season_points > 0
            /\ \E i \in DOMAIN mine : mine[i].overall_pick < 193 /\ mine[i].season_points > 0
            /\ by_owner[owner].total_value[1] > 0

\* ------------------------------------------------------------------------
\* fetch_season_data (lines 59-75) and the shapes of the weekly documents
\* ------------------------------------------------------------------------

\* The most seasons a run of fetch_all_data covers.
MaxSeasons == 2

\* Lines 52, 66 and 127: the first season of the current API.
current_api_year == 2019

\* The response to a request: the request fails (requests.get or
\* raise_for_status raises a RequestException), the body is no JSON, or it
\* parses into a dict or into a list.  The empty dict is <<>>.
HttpFail == [kind |-> "fail"]

Unparsable == [kind |-> "unparsable"]

JsonDict(doc) == [kind |-> "dict", doc |-> doc]

JsonList(items) == [kind |-> "list", items |-> items]

NoneData == [kind |-> "none"]

\* Lines 62-75 for a response that is a failure or a parsed body.
fetch_season_data(yr, resp) ==
    IF resp.kind = "fail" THEN NoneData
    ELSE IF yr < current_api_year /\ resp.kind = "list" /\ resp.items # <<>>
         THEN JsonDict(resp.items[1])
         ELSE resp

\* Line 521: `if season_data`.
Truthy(data) ==
    \/ data.kind = "dict" /\ data.doc # <<>>
    \/ data.kind = "list" /\ data.items # <<>>

\* A weekly response that parses into a list of documents.
FetchList(items) == [kind |-> "list", teams |-> <<>>, items |-> items]

\* Lines 126-128: wdata after the try block.
week_document(outcome, yr) ==
    IF yr < current_api_year /\ outcome.kind = "list" /\ outcome.items # <<>>
    THEN FetchOk(outcome.items[1])
    ELSE outcome

\* Line 135, outside the try block: wdata.get on a list raises AttributeError.
WeekRaises(outcome, yr) == week_document(outcome, yr).kind = "list"

LoopRaises(outcomes, yr) == \E w \in Weeks : WeekRaises(outcomes[w], yr)

\* Lines 121-188: the loop over the weeks, on the outcomes of its fetches.
RECURSIVE weekly_loop(_, _, _, _)
weekly_loop(pd, w, outcomes, yr) ==
    IF w > matchup_period_count THEN pd
    ELSE weekly_loop(WeekStep(pd, w, week_document(outcomes[w], yr)), w + 1, outcomes, yr)

\* The teams of a weekly document in which player 1 has the real score v.
ScoredTeams(w, pos, v) ==
    <<<<Entry(1, "player", PlayerDoc(1, pos, <<StatEntry(w, 0, v)>>), 0)>>>>

\* A season in which player 1 scores in week 1 and in week MaxDataWeek and
\* the fetch of week 2 fails; first is the response of week 1.
ScoredSeason(first, pos) ==
    [w \in Weeks |->
        IF w = 1 THEN first
        ELSE IF w = 2 THEN FetchFailed
        ELSE IF w = MaxDataWeek THEN FetchOk(ScoredTeams(w, pos, Pts(25)))
        ELSE FetchOk(<<>>)]

\* The weekly outcomes of a season: every fetch fails; player 1 scores;
\* the same with the document of week 1 wrapped in a list, as leagueHistory
\* answers; the body of week 2 is the empty list.
WeekScenarios(pos) ==
    {[w \in Weeks |-> FetchFailed],
     ScoredSeason(FetchOk(ScoredTeams(1, pos, Pts(20))), pos),
     ScoredSeason(FetchList(<<ScoredTeams(1, pos, Pts(20))>>), pos),
     [w \in Weeks |-> IF w = 2 THEN FetchList(<<>>) ELSE FetchFailed]}

\* ------------------------------------------------------------------------
\* extract_matchups (lines 356-421) and extract_team_records (lines 423-447)
\* ------------------------------------------------------------------------

\* A game of the schedule; hasWinner is FALSE for a game without "winner".
\* The games have totalPoints and no pointsByScoringPeriod.
GameDoc(id, period, hasWinner, winner, home, away) ==
    [id |-> id, matchupPeriodId |-> period, hasWinner |-> hasWinner, winner |-> winner,
     home |-> home, away |-> away]

SideDoc(teamId, points) == [teamId |-> teamId, totalPoints |-> points]

SeasonGames ==
    <<GameDoc(1, 1, TRUE, "HOME", SideDoc(1, Pts(100)), SideDoc(2, Pts(90))),
      GameDoc(2, 2, FALSE, "UNDECIDED", SideDoc(2, 0), SideDoc(1, 0))>>

\* Lines 386-417 (abbrev and the playoff fields are copied likewise and
\* left out); scores are in hundredths.
matchup(game, yr, tms) ==
    LET home_name == IF game.home.teamId \in DOMAIN tms THEN tms[game.home.teamId].name
                     ELSE "Unknown"
        away_name == IF game.away.teamId \in DOMAIN tms THEN tms[game.away.teamId].name
                     ELSE "Unknown"
        home_wins == game.winner = "HOME"
    IN  [year |-> yr,
         week |-> game.matchupPeriodId,
         matchup_id |-> game.id,
         home_team_id |-> game.home.teamId,
         home_team_name |-> home_name,
         home_score |-> round2(game.home.totalPoints),
         away_team_id |-> game.away.teamId,
         away_team_name |-> away_name,
         away_score |-> round2(game.away.totalPoints),
         winner |-> game.winner,
         margin |-> round2(Abs(game.home.totalPoints - game.away.totalPoints)),
         winning_team_id |-> IF home_wins THEN game.home.teamId ELSE game.away.teamId,
         losing_team_id |-> IF home_wins THEN game.away.teamId ELSE game.home.teamId]

\* Lines 370-421: one matchup per game with a winner, in schedule order.
extract_matchups(season_data, yr) ==
    LET played == SelectSeq(season_data.schedule, LAMBDA g : g.hasWinner)
    IN  [i \in DOMAIN played |-> matchup(played[i], yr, teams(season_data))]

\* Lines 428-447: one record per team (the record and rank fields are
\* copied likewise and left out); <<>> is the empty DataFrame.
extract_team_records(season_data, yr) ==
    [i \in DOMAIN season_data.teams |->
        [year |-> yr, team_id |-> season_data.teams[i].id,
         team_name |-> season_data.teams[i].name]]

\* ------------------------------------------------------------------------
\* fetch_all_data (lines 507-567)
\* ------------------------------------------------------------------------

FullSeasonDoc(tms, mbs, picks, games) ==
    [teams |-> tms, members |-> mbs, picks |-> picks, schedule |-> games]

\* The most picks the draft of a season of fetch_all_data has.
MaxSeasonPicks == 2

\* The pick lists of the seasons: picks of the rostered player with his
\* metadata and picks without playerId.
FetchPickLists(pos) ==
    {picks \in PickLists(MaxSeasonPicks, pos) :
        \A i \in DOMAIN picks : /\ picks[i].playerId \in {NoPid, 1}
                                /\ picks[i].hasPlayer = (picks[i].playerId = 1)}

\* A league with its teams, members and schedule; a document with a draft
\* only; a league one of whose teams has no "id".
LeagueDocs(pos) ==
    {FullSeasonDoc(SeasonTeams, SeasonMembers, picks, SeasonGames) :
        picks \in FetchPickLists(pos)}

BareDocs(pos) ==
    {FullSeasonDoc(<<>>, <<>>, picks, <<>>) :
        picks \in {p \in FetchPickLists(pos) :
                      Len(p) <= 1 /\ \A i \in DOMAIN p : p[i].playerId = NoPid}}

NoIdDocs ==
    {FullSeasonDoc(<<SeasonTeams[1], TeamDoc(FALSE, 0, "Gamma", "m2")>>, SeasonMembers,
                   <<>>, SeasonGames)}

\* The responses to the request of a season.
SeasonResponses(pos) ==
    {HttpFail, JsonDict(<<>>), JsonList(<<>>)}
    \cup {JsonDict(d) : d \in LeagueDocs(pos) \cup BareDocs(pos) \cup NoIdDocs}
    \cup {JsonList(<<d>>) : d \in LeagueDocs(pos)}

\* The exception lines 525-546 raise for the season, "none" without one: a
\* list has no get (line 135 in the weekly loop, else line 227), and
\* team["id"] of line 228 raises KeyError.
ExceptionOf(data, outcomes, yr) ==
    IF data.kind = "list" THEN "AttributeError"
    ELSE IF LoopRaises(outcomes, yr) THEN "AttributeError"
    ELSE IF TeamsRaise(data.doc) THEN "KeyError"
    ELSE "none"

\* Lines 525-546: all_data after a season whose document is doc.  drafts is
\* the dict in insertion order, one draft_info per season.
season_body(all, doc, yr, outcomes) ==
    LET draft == extract_draft_data_with_stats(doc, yr, weekly_loop(<<>>, 1, outcomes, yr))
        standings == extract_team_records(doc, yr)
    IN  [matchups |-> all.matchups \o extract_matchups(doc, yr),
         standings |-> IF standings = <<>> THEN all.standings
                       ELSE Append(all.standings, standings),
         drafts |-> Append(all.drafts, draft)]

\* The picks of all seasons, the last season first.
RECURSIVE AllPicks_newest_first(_)
AllPicks_newest_first(drafts) ==
    IF drafts = <<>> THEN <<>>
    ELSE AllPicks_newest_first(Tail(drafts)) \o Head(drafts).picks

\* Lines 468-469 and 561-563: the picks of all seasons in order.
RECURSIVE AllPicks(_)
AllPicks(drafts) == IF drafts = <<>> THEN <<>> ELSE Head(drafts).picks \o AllPicks(Tail(drafts))

\* Lines 519-521 and 549: the season's fetch fails or yields an empty
\* document, and the loop goes on.
SeasonSkipped ==
    /\ pc = "years"
    /\ year <= args.end_year
    /\ \E resp \in SeasonResponses(posId) \cup {Unparsable} :
          \/ resp.kind = "unparsable" /\ lastFetch' = "fail"
          \/ /\ resp.kind # "unparsable"
             /\ ~Truthy(fetch_season_data(year, resp))
             /\ lastFetch' = IF fetch_season_data(year, resp) = NoneData THEN "fail"
                              ELSE "empty"
    /\ year' = year + 1
    /\ UNCHANGED <<pc, posId, week, player_data, sighted, raw_picks, stats,
                   draft_info, fetchVars, metricVars>>

\* Line 65: r.json() on a body that is no JSON raises requests'
\* JSONDecodeError, a RequestException, from requests 2.27 on (SeasonSkipped)
\* and a plain ValueError before, which line 73 does not catch.
SeasonJsonRaises ==
    /\ pc = "years"
    /\ year <= args.end_year
    /\ raised' = "ValueError"
    /\ pc' = "raised"
    /\ UNCHANGED <<seasonVars, args, all_data, metricVars>>

\* Lines 519-549: the season is fetched and processed.  The locals of the
\* calls are not kept.
SeasonOk ==
    /\ pc = "years"
    /\ year <= args.end_year
    /\ \E resp \in SeasonResponses(posId), outcomes \in WeekScenarios(posId) :
          LET data == fetch_season_data(year, resp)
          IN  /\ Truthy(data)
              /\ ExceptionOf(data, outcomes, year) = "none"
              /\ all_data' = season_body(all_data, data.doc, year, outcomes)
    /\ lastFetch' = "ok"
    /\ year' = year + 1
    /\ UNCHANGED <<pc, posId, week, player_data, sighted, raw_picks, stats,
                   draft_info, args, raised, metricVars>>

\* Lines 519-546: processing the season raises, and nothing catches it.
SeasonRaises ==
    /\ pc = "years"
    /\ year <= args.end_year
    /\ \E resp \in SeasonResponses(posId), outcomes \in WeekScenarios(posId) :
          LET data == fetch_season_data(year, resp)
          IN  /\ Truthy(data)
              /\ ExceptionOf(data, outcomes, year) # "none"
              /\ raised' = ExceptionOf(data, outcomes, year)
    /\ pc' = "raised"
    /\ UNCHANGED <<seasonVars, args, all_data, metricVars>>

\* Lines 517 and 551-552: the loop over the years is over.
YearsDone ==
    /\ pc = "years"
    /\ year > args.end_year
    /\ pc' = "metrics"
    /\ UNCHANGED <<seasonVars, fetchVars, metricVars>>

\* Lines 468-503 on all_data["drafts"]: the next pick.
FoldDraftPick ==
    /\ pc = "metrics"
    /\ Len(folded) < Len(AllPicks(all_data.drafts))
    /\ Fold(AllPicks(all_data.drafts)[Len(folded) + 1])
    /\ UNCHANGED <<pc, seasonVars, fetchVars>>

\* Lines 505 and 555-567: the metrics are complete and all_data is returned
\* (the DataFrames are copies of its collections).
ReturnAll ==
    /\ pc = "metrics"
    /\ Len(folded) = Len(AllPicks(all_data.drafts))
    /\ pc' = "done"
    /\ UNCHANGED <<seasonVars, fetchVars, metricVars>>

\* fetch_all_data(start_year, end_year) from the last season of the
\* leagueHistory API on, for no season up to MaxSeasons seasons.
Init ==
    /\ pc = "years"
    /\ \E n \in 0..MaxSeasons :
          args = [start_year |-> current_api_year - 1,
                  end_year |-> current_api_year - 2 + n]
    /\ year = args.start_year
    /\ posId = 2
    /\ week = 1
    /\ player_data = <<>>
    /\ lastFetch = "none"
    /\ sighted = {}
    /\ raw_picks = <<>>
    /\ stats = <<>>
    /\ draft_info = [year |-> 2019, picks |-> <<>>]
    /\ all_data = [matchups |-> <<>>, standings |-> <<>>, drafts |-> <<>>]
    /\ raised = "none"
    /\ IdleMetrics

Next ==
    \/ SeasonSkipped
    \/ SeasonJsonRaises
    \/ SeasonOk
    \/ SeasonRaises
    \/ YearsDone
    \/ FoldDraftPick
    \/ ReturnAll

Spec == Init /\ [][Next]_vars

\* ------------------------------------------------------------------------
\* Claims about fetch_all_data (Spec)
\* ------------------------------------------------------------------------

\* C6: fetch_all_data never raises to its caller, whatever the responses to
\* the requests of the seasons and of the weeks are, and a run that has
\* fetched no season returns empty matchups, standings and drafts.
C6_FetchAllNeverRaises ==
    /\ raised = "none"
    /\ pc # "raised"
    /\ (pc = "done" /\ all_data.drafts = <<>>) =>
           /\ all_data.matchups = <<>>
           /\ all_data.standings = <<>>

\* A run without a fetched season returns the empty collections.
C6_EmptyRunReturns ==
    (pc = "done" /\ args.end_year >= args.start_year /\ all_data.drafts = <<>>) =>
        /\ raised = "none"
        /\ all_data.matchups = <<>>
        /\ all_data.standings = <<>>

\* ------------------------------------------------------------------------
\* Claims about the enriched picks (SpecSeason)
\* ------------------------------------------------------------------------

\* The weeks of 1..14 whose entry of the pick's weekly_scores is > 0.
ScoringWeeks(pick) ==
    {i \in DOMAIN pick.weekly_scores :
        pick.weekly_scores[i].week \in 1..14 /\ pick.weekly_scores[i].score > 0}

\* C11: for every enriched pick, with derived or with zero statistics,
\* games_played is the number of weeks of 1..14 whose score in the pick's
\* weekly_scores is strictly positive, non_scoring_games is
\* 14 - games_played, and so 0 <= games_played <= 14.
C11_GamesPlayedCountsWeeklyScores ==
    \A i \in DOMAIN draft_info.picks :
        LET pick == draft_info.picks[i]
        IN  /\ pick.games_played = Cardinality(ScoringWeeks(pick))
            /\ pick.non_scoring_games = 14 - pick.games_played
            /\ pick.games_played \in 0..14
            /\ pick.games_played + pick.non_scoring_games = 14

\* The part of C11 that does not read weekly_scores.
C11_GamesAddUp ==
    \A i \in DOMAIN draft_info.picks :
        LET pick == draft_info.picks[i]
        IN  /\ pick.non_scoring_games = 14 - pick.games_played
            /\ pick.games_played \in 0..14

\* ------------------------------------------------------------------------
\* Claims about the order of the seasons and of the picks (Spec)
\* ------------------------------------------------------------------------

\* The number of picks of the seasons stored before the j-th.
RECURSIVE PicksBefore(_, _)
PicksBefore(drafts, j) ==
    IF j <= 1 THEN 0 ELSE PicksBefore(drafts, j - 1) + Len(drafts[j - 1].picks)

\* The stored seasons are in ascending year order among the years already
\* visited, the k-th processed pick is the k-th pick of the seasons taken
\* in that order and, within a season, in the order of its pick list, and
\* the metrics are computed after the last year, over every pick.
SeasonOrder ==
    LET drafts == all_data.drafts
        total == PicksBefore(drafts, Len(drafts) + 1)
    IN  /\ \A j \in DOMAIN drafts :
              /\ drafts[j].year \in args.start_year..(year - 1)
              /\ \A k \in DOMAIN drafts : j < k => drafts[j].year < drafts[k].year
              /\ \A i \in DOMAIN drafts[j].picks :
                    /\ drafts[j].picks[i].year = drafts[j].year
                    /\ LET k == PicksBefore(drafts, j) + i
                       IN  k <= Len(folded) => folded[k] = drafts[j].picks[i]
        /\ Len(folded) <= total
        /\ folded # <<>> => pc \in {"metrics", "done"}
        /\ pc \in {"metrics", "done"} => year = args.end_year + 1
        /\ pc = "done" => Len(folded) = total

\* One step of the loop over the years: the next year is the year plus one,
\* a fetched season is stored under its year after the earlier ones, and a
\* season whose fetch failed or was empty changes nothing.
SeasonStep ==
    /\ year' \in {year, year + 1}
    /\ year' = year + 1 =>
          /\ pc = "years" /\ year <= args.end_year
          /\ lastFetch' = "ok" =>
                /\ Len(all_data'.drafts) = Len(all_data.drafts) + 1
                /\ SubSeq(all_data'.drafts, 1, Len(all_data.drafts)) = all_data.drafts
                /\ all_data'.drafts[Len(all_data'.drafts)].year = year
          /\ lastFetch' # "ok" => all_data' = all_data
    /\ folded' # folded =>
          /\ Len(folded') = Len(folded) + 1
          /\ SubSeq(folded', 1, Len(folded)) = folded
          /\ all_data' = all_data

\* C12: fetch_all_data visits the years from start_year to end_year in
\* ascending order, a season whose fetch fails is skipped and contributes
\* no picks, and calculate_draft_metrics processes the picks in ascending
\* year order and within a year in the order of the season's pick list,
\* each pick exactly once.
C12_AscendingSeasonsAndPicks ==
    /\ year = args.start_year
    /\ SeasonOrder
    /\ [][SeasonStep /\ SeasonOrder']_vars

\* A run has returned after the first season failed and the second yielded
\* two picks, both processed.
C12_Witness ==
    /\ pc = "done"
    /\ Len(all_data.drafts) = 1
    /\ all_data.drafts[1].year = args.start_year + 1
    /\ Len(all_data.drafts[1].picks) = 2
    /\ folded = all_data.drafts[1].picks
    /\ folded[1].overall_pick < folded[2].overall_pick

\* ------------------------------------------------------------------------
\* Claims about the best pick and the owner aggregates (SpecMetrics)
\* ------------------------------------------------------------------------

\* The index of the first of the picks whose value no other pick exceeds.
FirstMax(picks) ==
    CHOOSE i \in DOMAIN picks :
        /\ \A j \in DOMAIN picks : ~RatLess(ClaimedValue(picks[i]), ClaimedValue(picks[j]))
        /\ \A j \in 1..(i - 1) : RatLess(ClaimedValue(picks[j]), ClaimedValue(picks[i]))

\* best_pick and best_pick_value of the aggregate o are those of the first
\* of the picks that attains the maximum pick_value.
BestIsFirstMax(o, picks) ==
    /\ o.best_pick = <<picks[FirstMax(picks)]>>
    /\ o.best_pick_value = ClaimedValue(picks[FirstMax(picks)])

\* C13: every owner with processed picks has a best pick recorded,
\* best_pick_value is the greatest pick_value among the owner's picks, and
\* best_pick is the first pick in processing order that attains it.
C13_BestPickIsFirstMax ==
    \A owner \in DOMAIN by_owner :
        BestIsFirstMax(by_owner[owner], OwnerPicks(owner, Len(folded)))

\* The same for the owners one of whose picks has a pick_value above zero.
C13_BestPickWhenPositive ==
    \A owner \in DOMAIN by_owner :
        LET mine == OwnerPicks(owner, Len(folded))
        IN  (\E i \in DOMAIN mine : RatLess(RatZero, ClaimedValue(mine[i]))) =>
                BestIsFirstMax(by_owner[owner], mine)

\* The sum of total_picks over the owners of the set.
RECURSIVE TotalPicks(_, _)
TotalPicks(bo, owners) ==
    IF owners = {} THEN 0
    ELSE LET owner == CHOOSE x \in owners : TRUE
         IN  bo[owner].total_picks + TotalPicks(bo, owners \ {owner})

\* The counts of the aggregates against the processed picks.
OwnerCounts ==
    /\ DOMAIN by_owner = {folded[k].owner_name : k \in DOMAIN folded}
    /\ TotalPicks(by_owner, DOMAIN by_owner) = Len(folded)
    /\ \A owner \in DOMAIN by_owner :
          LET o == by_owner[owner]
          IN  /\ o.total_picks = Len(OwnerPicks(owner, Len(folded)))
              /\ o.total_picks >= 1
              /\ o.boom_players \in 0..o.total_picks
              /\ o.bust_players \in 0..o.total_picks
              /\ o.injured_players \in 0..o.total_picks
              /\ o.playoff_performers \in 0..o.total_picks

\* Processing a pick leaves the aggregates of the other owners as they are
\* and deletes none.
OtherOwnersKept ==
    \A pick \in MetricPicks :
        folded' = Append(folded, pick) =>
            /\ DOMAIN by_owner' = DOMAIN by_owner \cup {pick.owner_name}
            /\ \A owner \in DOMAIN by_owner :
                  owner # pick.owner_name => by_owner'[owner] = by_owner[owner]
            /\ by_owner'[pick.owner_name].total_picks =
                  (IF pick.owner_name \in DOMAIN by_owner
                   THEN by_owner[pick.owner_name].total_picks ELSE 0) + 1

\* C14: after any sequence of processed picks, every owner of by_owner has
\* total_picks equal to the number of processed picks of that owner_name
\* and at least 1, the total_picks of all owners add up to the number of
\* processed picks, boom_players, bust_players, injured_players and
\* playoff_performers are each between 0 and total_picks, and processing a
\* pick changes the aggregate of the pick's owner only.
C14_OwnerAggregateCounts == [][OtherOwnersKept /\ OwnerCounts']_vars

\* Two owners have aggregates, one of them with two picks of which one
\* counts as a boom player and one as a bust player.
C14_Witness ==
    /\ Cardinality(DOMAIN by_owner) = 2
    /\ \E owner \in DOMAIN by_owner :
          /\ by_owner[owner].total_picks = 2
          /\ by_owner[owner].boom_players = 1
          /\ by_owner[owner].bust_players = 1
          /\ by_owner[owner].injured_players = 1

\* ------------------------------------------------------------------------
\* Claims about the boom, bust, best and worst weeks (SpecStats)
\* ------------------------------------------------------------------------

\* The weeks the thresholds of the position count as boom and as bust.
BoomWeeks(rec) ==
    {w \in 1..14 : ScoreOf(rec, w) >= Pts(ClaimThresholds(rec.position)[1])}

BustWeeks(rec) ==
    {w \in 1..14 : 0 < ScoreOf(rec, w) /\ ScoreOf(rec, w) <= Pts(ClaimThresholds(rec.position)[2])}

\* No week is both boom and bust, and boom_games + bust_games <=
\* games_played <= 14.
BoomBustWithinGames(rec, st) ==
    /\ BoomWeeks(rec) \cap BustWeeks(rec) = {}
    /\ st.boom_games = Cardinality(BoomWeeks(rec))
    /\ st.bust_games = Cardinality(BustWeeks(rec))
    /\ st.boom_games + st.bust_games <= st.games_played
    /\ st.games_played <= 14

\* With a game played and no score below zero, 0 < worst_week <= best_week.
WorstBelowBest(rec, st) ==
    (st.games_played >= 1 /\ \A w \in 1..14 : ScoreOf(rec, w) >= 0) =>
        (0 < st.worst_week /\ st.worst_week <= st.best_week)

\* C15: for every enriched pick no week counts as both a boom and a bust,
\* boom_games + bust_games <= games_played <= 14, with a game played and
\* no negative score 0 < worst_week <= best_week, and without a game played
\* best_week = worst_week = 0.
C15_BoomBustBestWorst ==
    pc = "done" =>
        \A pid \in DOMAIN stats :
            /\ BoomBustWithinGames(player_data[pid], stats[pid])
            /\ WorstBelowBest(player_data[pid], stats[pid])
            /\ stats[pid].games_played = 0 =>
                  (stats[pid].best_week = 0 /\ stats[pid].worst_week = 0)

\* The same, the last part for the players with a week of score 0 only:
\* without a game played worst_week is 0 and best_week is not above 0.
C15_ExceptLosingSeason ==
    pc = "done" =>
        \A pid \in DOMAIN stats :
            /\ BoomBustWithinGames(player_data[pid], stats[pid])
            /\ WorstBelowBest(player_data[pid], stats[pid])
            /\ stats[pid].games_played = 0 =>
                  /\ stats[pid].worst_week = 0
                  /\ stats[pid].best_week <= 0
                  /\ (\E w \in 1..14 : ScoreOf(player_data[pid], w) = 0) =>
                        stats[pid].best_week = 0

=============================================================================
